---- MODULE Spec2Model ----
(***************************************************************************)
(* Model of the AXIOM logo analyser.                                       *)
(*                                                                         *)
(* getLogoMetrics (utils/analysis) loads an image, draws it on a canvas,   *)
(* reads the RGBA bytes back and derives a LogoMetrics record from the     *)
(* alpha channel in one row-major scan.  The promise it returns is settled *)
(* from the image's onload / onerror handlers.                             *)
(*                                                                         *)
(* Numbers.  JavaScript numbers are IEEE doubles.  Every quantity the scan *)
(* accumulates is a small non-negative integer, and every derived field is *)
(* a quotient of such integers, so a value is modelled as an exact         *)
(* fraction [n, d] in lowest terms with d >= 0.  d = 0 stands for the      *)
(* non-finite doubles: 0/0 is NaN, 1/0 is +Infinity, -1/0 is -Infinity.    *)
(* With this representation the usual fraction formulas for /, * and -     *)
(* also produce the IEEE results on the non-finite values that occur here. *)
(***************************************************************************)
EXTENDS Integers, Sequences, FiniteSets, TLC

VARIABLES
    img,        \* the decoded image: [width, height, data]; data is the RGBA byte sequence
    settled,    \* state of the promise: "pending", "resolved" or "rejected"
    handler,    \* what became of the image event handler: "none", "returned", "threw"
    acc,        \* the scan's local accumulators when the handler finished the scan
    record,     \* the LogoMetrics record the promise resolved with
    reason,     \* the value the promise rejected with
    calls,      \* several getLogoMetrics calls in flight at once: call id -> its state
                \* (seq: the position of its scan among the completed scans)
    state,      \* App: 'landing', 'upload', 'analyzing' or 'results'
    imageSrc,   \* App: the mounted image, or null
    metrics,    \* App: the LogoMetrics on display, or null
    analysis,   \* App: the AnalysisResponse on display, or null
    error,      \* App: the message of the error banner, or null
    analysisStep, \* App: the index of the progress line reached while analyzing
    archive,    \* App: the list of archived analyses, newest first
    storage,    \* localStorage item 'axiom_archive_v1': [json |-> the saved list], or null
    reading,    \* the number of FileReaders still reading
    runs        \* the startAnalysis invocations: run number -> its position and closure

\* the state of the one call that Spec follows, acc apart
oneCall == <<img, settled, handler, record, reason>>

\* what lies outside that call
app == <<state, imageSrc, metrics, analysis, error, analysisStep, archive, storage,
         reading, runs>>

outside == <<calls, app>>

vars == <<img, settled, handler, acc, record, reason, calls,
          state, imageSrc, metrics, analysis, error, analysisStep, archive, storage,
          reading, runs>>

----------------------------------------------------------------------------
(* Bounds of the model *)

\* largest number of pixels (width * height) of the exhaustively enumerated buffers
MaxPixels == 6

\* largest number of pixels of the buffers whose pixels are visited in every order
MaxOrderPixels == 4

\* number of getLogoMetrics calls that can be in flight together
MaxCalls == 3

\* number of startAnalysis invocations followed
MaxRuns == 2

\* number of FileReaders that can be reading together
MaxReads == 1

----------------------------------------------------------------------------
(* Doubles as exact fractions *)

Abs(i) == IF i < 0 THEN -i ELSE i

Sign(i) == IF i < 0 THEN -1 ELSE IF i > 0 THEN 1 ELSE 0

RECURSIVE GCD(_, _)
GCD(a, b) == IF b = 0 THEN a ELSE GCD(b, a % b)

\* the double n / d
Frac(n, d) ==
    IF d = 0 THEN [n |-> Sign(n), d |-> 0]
    ELSE LET g == GCD(Abs(n), Abs(d))
         IN  [n |-> Sign(d) * (n \div g), d |-> Abs(d) \div g]

Num(i) == [n |-> i, d |-> 1]

IsNaN(a) == a.n = 0 /\ a.d = 0

IsFinite(a) == a.d # 0

Div(a, b) == Frac(a.n * b.d, a.d * b.n)

Mul(a, b) == Frac(a.n * b.n, a.d * b.d)

Sub(a, b) == Frac(a.n * b.d - b.n * a.d, a.d * b.d)

Add(a, b) == Frac(a.n * b.d + b.n * a.d, a.d * b.d)

\* a < b as JavaScript evaluates it: false as soon as one side is NaN
Lt(a, b) == ~IsNaN(a) /\ ~IsNaN(b) /\ a.n * b.d < b.n * a.d

Le(a, b) == ~IsNaN(a) /\ ~IsNaN(b) /\ a.n * b.d <= b.n * a.d

----------------------------------------------------------------------------
(* The pixel buffers the image-acquisition side can hand over *)

\* alpha values of the exhaustively enumerated buffers
Alphas == {0, 1, 255}

\* alpha values whose ratios fall on, and on both sides of, 0.05 and 0.15
BoundaryAlphas == {0, 17, 19, 20, 21, 23}

\* the value given to the R, G and B bytes of every pixel
Fills == {0, 255}

\* ImageData.data of a w x h canvas: 4 bytes per pixel, row-major, alpha last
MkData(w, h, alpha, fill) ==
    [k \in 1..(4 * w * h) |-> IF k % 4 = 0 THEN alpha[(k \div 4) - 1] ELSE fill]

MkImage(w, h, alpha, fill) ==
    [width |-> w, height |-> h, data |-> MkData(w, h, alpha, fill)]

Shapes == {s \in (0..MaxPixels) \X (0..MaxPixels) : s[1] * s[2] <= MaxPixels}

SmallImages ==
    UNION { { MkImage(s[1], s[2], alpha, fill) :
                alpha \in [0..(s[1] * s[2] - 1) -> Alphas], fill \in Fills }
            : s \in Shapes }

BoundaryImages ==
    UNION { { MkImage(s[1], s[2], alpha, fill) :
                alpha \in [0..(s[1] * s[2] - 1) -> BoundaryAlphas], fill \in Fills }
            : s \in {<<2, 1>>, <<1, 2>>, <<2, 2>>} }

\* the 10 x 10 buffer with alpha = 255 everywhere
OpaqueSquare == MkImage(10, 10, [i \in 0..99 |-> 255], 0)

\* the 10 x 10 buffer that is opaque in column x = 0 only
LeftColumn == MkImage(10, 10, [i \in 0..99 |-> IF i % 10 = 0 THEN 255 ELSE 0], 0)

Images == SmallImages \cup BoundaryImages \cup {OpaqueSquare, LeftColumn}

----------------------------------------------------------------------------
(* getLogoMetrics: the scan *)

\* InitAcc with the accumulators kept outside the handler and never reset: each
\* scan goes on from the values the previous scan left
InitAccCarried(W, H) ==
    IF "none" \in DOMAIN acc
    THEN [minX |-> W, minY |-> H, maxX |-> 0, maxY |-> 0,
          totalAlpha |-> 0, sumX |-> 0, sumY |-> 0, filledPixels |-> 0,
          weightL |-> 0, weightR |-> 0, weightT |-> 0, weightB |-> 0]
    ELSE acc

\* InitAcc with the box started at the origin instead of the far corner
InitAccFromOrigin(W, H) ==
    [minX |-> 0, minY |-> 0, maxX |-> 0, maxY |-> 0,
     totalAlpha |-> 0, sumX |-> 0, sumY |-> 0, filledPixels |-> 0,
     weightL |-> 0, weightR |-> 0, weightT |-> 0, weightB |-> 0]

InitAcc(W, H) ==
    [minX |-> W, minY |-> H, maxX |-> 0, maxY |-> 0,
     totalAlpha |-> 0, sumX |-> 0, sumY |-> 0, filledPixels |-> 0,
     weightL |-> 0, weightR |-> 0, weightT |-> 0, weightB |-> 0]

\* AlphaAt reading the blue byte, data[idx + 2]
AlphaAtBlue(data, W, x, y) == data[(y * W + x) * 4 + 2 + 1]

\* data[idx + 3] of the 0-based byte array
AlphaAt(data, W, x, y) == data[(y * W + x) * 4 + 3 + 1]

\* LeftOfMid with <= in place of <
LeftOfMidInclusive(x, W) == Le(Num(x), Div(Num(W), Num(2)))

\* LeftOfMid with the half truncated to an integer
LeftOfMidTruncated(x, W) == x < W \div 2

\* x < canvas.width / 2, the division being a double division
LeftOfMid(x, W) == Lt(Num(x), Div(Num(W), Num(2)))

\* Pixel with maxX and maxY set to the last filled pixel seen, not to the largest
PixelLastSeen(a, W, H, data, x, y) ==
    LET alpha == AlphaAt(data, W, x, y)
    IN  IF alpha > 0
        THEN [minX |-> IF x < a.minX THEN x ELSE a.minX,
              minY |-> IF y < a.minY THEN y ELSE a.minY,
              maxX |-> x,
              maxY |-> y,
              totalAlpha |-> a.totalAlpha + alpha,
              sumX |-> a.sumX + x * alpha,
              sumY |-> a.sumY + y * alpha,
              filledPixels |-> a.filledPixels + 1,
              weightL |-> IF LeftOfMid(x, W) THEN a.weightL + alpha ELSE a.weightL,
              weightR |-> IF LeftOfMid(x, W) THEN a.weightR ELSE a.weightR + alpha,
              weightT |-> IF LeftOfMid(y, H) THEN a.weightT + alpha ELSE a.weightT,
              weightB |-> IF LeftOfMid(y, H) THEN a.weightB ELSE a.weightB + alpha]
        ELSE a

\* the body of the inner loop for the pixel (x, y)
Pixel(a, W, H, data, x, y) ==
    LET alpha == AlphaAt(data, W, x, y)
    IN  IF alpha > 0
        THEN [minX |-> IF x < a.minX THEN x ELSE a.minX,
              minY |-> IF y < a.minY THEN y ELSE a.minY,
              maxX |-> IF x > a.maxX THEN x ELSE a.maxX,
              maxY |-> IF y > a.maxY THEN y ELSE a.maxY,
              totalAlpha |-> a.totalAlpha + alpha,
              sumX |-> a.sumX + x * alpha,
              sumY |-> a.sumY + y * alpha,
              filledPixels |-> a.filledPixels + 1,
              weightL |-> IF LeftOfMid(x, W) THEN a.weightL + alpha ELSE a.weightL,
              weightR |-> IF LeftOfMid(x, W) THEN a.weightR ELSE a.weightR + alpha,
              weightT |-> IF LeftOfMid(y, H) THEN a.weightT + alpha ELSE a.weightT,
              weightB |-> IF LeftOfMid(y, H) THEN a.weightB ELSE a.weightB + alpha]
        ELSE a

\* the inner loop over x for the row y, from column x on.  Comparing next with a
\* changes nothing in the result: it has TLC evaluate the accumulators at each
\* iteration, as the loop does, and not as one nested expression per pixel.
RECURSIVE ScanRow(_, _, _, _, _, _)
ScanRow(a, W, H, data, x, y) ==
    IF x >= W THEN a
    ELSE LET next == Pixel(a, W, H, data, x, y)
         IN  IF next = a THEN ScanRow(a, W, H, data, x + 1, y)
             ELSE ScanRow(next, W, H, data, x + 1, y)

\* the outer loop over y, from row y on
RECURSIVE Scan(_, _, _, _, _)
Scan(a, W, H, data, y) ==
    IF y >= H THEN a
    ELSE Scan(ScanRow(a, W, H, data, 0, y), W, H, data, y + 1)

\* getSymmetry with inclusive boundaries
getSymmetryInclusive(diff) ==
    IF Le(diff, Frac(5, 100)) THEN "high"
    ELSE IF Le(diff, Frac(15, 100)) THEN "medium"
    ELSE "low"

getSymmetry(diff) ==
    IF Lt(diff, Frac(5, 100)) THEN "high"
    ELSE IF Lt(diff, Frac(15, 100)) THEN "medium"
    ELSE "low"

\* CenterOfMass with sumX and sumY exchanged
CenterOfMassSwapped(a) ==
    [x |-> Div(Num(a.sumY), Num(a.totalAlpha)),
     y |-> Div(Num(a.sumX), Num(a.totalAlpha))]

\* centerX, centerY
CenterOfMass(a) ==
    [x |-> Div(Num(a.sumX), Num(a.totalAlpha)),
     y |-> Div(Num(a.sumY), Num(a.totalAlpha))]

\* diffV or diffH for a pair of opposite weights
Diff(w1, w2, totalAlpha) == Div(Num(Abs(w1 - w2)), Num(totalAlpha))

\* bbWidth, bbHeight and the boundingBox field
BoundingBox(a) ==
    [x |-> a.minX, y |-> a.minY, width |-> a.maxX - a.minX, height |-> a.maxY - a.minY]

Density(a) ==
    LET bbWidth == a.maxX - a.minX
        bbHeight == a.maxY - a.minY
    IN  Mul(Div(Num(a.filledPixels), Num(bbWidth * bbHeight)), Num(100))

\* CenterOffset measured from the origin instead of the geometric centre
CenterOffsetFromOrigin(center, size) == Mul(Div(center, Num(size)), Num(100))

\* CenterOffset measured from the centre towards the origin: the sign is reversed
CenterOffsetReversed(center, size) ==
    Mul(Div(Sub(Div(Num(size), Num(2)), center), Num(size)), Num(100))

\* ((center - size / 2) / size) * 100
CenterOffset(center, size) ==
    Mul(Div(Sub(center, Div(Num(size), Num(2))), Num(size)), Num(100))

\* (weight / totalAlpha) * 100
WeightPercent(weight, totalAlpha) == Mul(Div(Num(weight), Num(totalAlpha)), Num(100))

\* AspectRatio with height over width
AspectRatioInverted(image) == Div(Num(image.height), Num(image.width))

\* img.width / img.height
AspectRatio(image) == Div(Num(image.width), Num(image.height))

\* the record passed to resolve
Metrics(image, a) ==
    LET W == image.width
        H == image.height
        center == CenterOfMass(a)
    IN  [width |-> W,
         height |-> H,
         aspect_ratio |-> AspectRatio(image),
         symmetry_vertical |-> getSymmetry(Diff(a.weightL, a.weightR, a.totalAlpha)),
         symmetry_horizontal |-> getSymmetry(Diff(a.weightT, a.weightB, a.totalAlpha)),
         center_offset_x |-> CenterOffset(center.x, W),
         center_offset_y |-> CenterOffset(center.y, H),
         weight_left |-> WeightPercent(a.weightL, a.totalAlpha),
         weight_right |-> WeightPercent(a.weightR, a.totalAlpha),
         weight_top |-> WeightPercent(a.weightT, a.totalAlpha),
         weight_bottom |-> WeightPercent(a.weightB, a.totalAlpha),
         density |-> Density(a),
         complexity_index |-> Div(Num(a.filledPixels), Num(W + H)),
         boundingBox |-> BoundingBox(a),
         centerOfMass |-> center]

----------------------------------------------------------------------------
(* getLogoMetrics: the promise and the image's event handlers *)

NoAcc == [none |-> TRUE]

NoRecord == [none |-> TRUE]

\* a call that has not been made
NoCall == [img |-> [width |-> 0, height |-> 0, data |-> <<>>], settled |-> "pending",
           handler |-> "unstarted", record |-> NoRecord, reason |-> "", seq |-> 0]

\* JavaScript's null
null == [null |-> TRUE]

\* a startAnalysis invocation that has not been made
\* (before: the metrics and analysis on display when it was called)
NoRun == [pc |-> "unstarted", imageSrc |-> null, archive |-> <<>>,
          extractedMetrics |-> null, before |-> <<null, null>>]

\* the App as useState initialises it, with nothing saved and nothing in flight
AppFresh ==
    /\ state = "landing"
    /\ imageSrc = null
    /\ metrics = null
    /\ analysis = null
    /\ error = null
    /\ analysisStep = 0
    /\ archive = <<>>
    /\ storage = null
    /\ reading = 0
    /\ runs = [r \in 1..MaxRuns |-> NoRun]

Init ==
    /\ calls = [c \in 1..MaxCalls |-> NoCall]
    /\ AppFresh
    /\ img \in Images
    /\ settled = "pending"
    /\ handler = "none"
    /\ acc = NoAcc
    /\ record = NoRecord
    /\ reason = ""

\* img.onerror = reject: the image could not be loaded or decoded
ImgOnError ==
    /\ handler = "none"
    /\ handler' = "returned"
    /\ settled' = "rejected"
    /\ reason' = "error event"
    /\ UNCHANGED <<img, acc, record>>
    /\ UNCHANGED outside

\* img.onload when canvas.getContext('2d') gives null
ImgOnLoadNoContext ==
    /\ handler = "none"
    /\ handler' = "returned"
    /\ settled' = "rejected"
    /\ reason' = "Could not create canvas context"
    /\ UNCHANGED <<img, acc, record>>
    /\ UNCHANGED outside

\* img.onload on an image of width or height 0: getImageData(0, 0, sw, sh) throws
\* IndexSizeError when sw or sh is 0; the exception leaves the handler and the
\* promise is neither resolved nor rejected
ImgOnLoadThrows ==
    /\ handler = "none"
    /\ img.width = 0 \/ img.height = 0
    /\ handler' = "threw"
    /\ UNCHANGED <<img, settled, acc, record, reason>>
    /\ UNCHANGED outside

\* img.onload: scan the canvas and resolve with the metrics
ImgOnLoad ==
    /\ handler = "none"
    /\ img.width > 0 /\ img.height > 0
    /\ LET a == Scan(InitAcc(img.width, img.height), img.width, img.height, img.data, 0)
       IN  /\ acc' = a
           /\ record' = Metrics(img, a)
    /\ handler' = "returned"
    /\ settled' = "resolved"
    /\ UNCHANGED <<img, reason>>
    /\ UNCHANGED outside

Next ==
    \/ ImgOnError
    \/ ImgOnLoadNoContext
    \/ ImgOnLoadThrows
    \/ ImgOnLoad

Spec == Init /\ [][Next]_vars

----------------------------------------------------------------------------
(* Several getLogoMetrics calls in flight.  Each call owns its Image, canvas and *)
(* promise; the handlers of the pending calls run one at a time, in any order.   *)
(* acc holds the accumulators of the handler that scanned last.                  *)

\* the images handed to the calls: a buffer, its mirror image, a 2 x 2 buffer
\* and an image of width 0
CallImages ==
    {MkImage(2, 1, [i \in 0..1 |-> IF i = 0 THEN 255 ELSE 1], 0),
     MkImage(2, 1, [i \in 0..1 |-> IF i = 0 THEN 1 ELSE 255], 0),
     MkImage(2, 2, [i \in 0..3 |-> IF i = 1 THEN 0 ELSE 255], 0),
     MkImage(0, 1, <<>>, 0)}

\* the idle state of the variables that follow a single call
OneCallIdle ==
    /\ img = NoCall.img
    /\ settled = "pending"
    /\ handler = "none"
    /\ record = NoRecord
    /\ reason = ""

InitCalls ==
    /\ calls = [c \in 1..MaxCalls |-> NoCall]
    /\ AppFresh
    /\ acc = NoAcc
    /\ OneCallIdle

\* the number of scans that have completed
Scanned == Cardinality({c \in 1..MaxCalls : calls[c].settled = "resolved"})

\* getLogoMetrics(imageSrc): a new Image is created and its src set
CallStart(c, image) ==
    /\ calls[c].handler = "unstarted"
    /\ calls' = [calls EXCEPT ![c] = [NoCall EXCEPT !.img = image, !.handler = "none"]]
    /\ UNCHANGED acc
    /\ UNCHANGED <<oneCall, app>>

\* img.onerror = reject, for the call c
CallOnError(c) ==
    /\ calls[c].handler = "none"
    /\ calls' = [calls EXCEPT ![c].handler = "returned", ![c].settled = "rejected",
                              ![c].reason = "error event"]
    /\ UNCHANGED acc
    /\ UNCHANGED <<oneCall, app>>

\* img.onload of the call c when canvas.getContext('2d') gives null
CallOnLoadNoContext(c) ==
    /\ calls[c].handler = "none"
    /\ calls' = [calls EXCEPT ![c].handler = "returned", ![c].settled = "rejected",
                              ![c].reason = "Could not create canvas context"]
    /\ UNCHANGED acc
    /\ UNCHANGED <<oneCall, app>>

\* img.onload of the call c on an image of width or height 0: getImageData throws
CallOnLoadThrows(c) ==
    /\ calls[c].handler = "none"
    /\ calls[c].img.width = 0 \/ calls[c].img.height = 0
    /\ calls' = [calls EXCEPT ![c].handler = "threw"]
    /\ UNCHANGED acc
    /\ UNCHANGED <<oneCall, app>>

\* img.onload of the call c: scan its canvas and resolve its promise
CallOnLoad(c) ==
    /\ calls[c].handler = "none"
    /\ calls[c].img.width > 0 /\ calls[c].img.height > 0
    /\ LET image == calls[c].img
           a == Scan(InitAcc(image.width, image.height),
                     image.width, image.height, image.data, 0)
       IN  /\ acc' = a
           /\ calls' = [calls EXCEPT ![c].handler = "returned", ![c].settled = "resolved",
                                     ![c].record = Metrics(image, a),
                                     ![c].seq = Scanned + 1]
    /\ UNCHANGED <<oneCall, app>>

NextCalls ==
    \E c \in 1..MaxCalls :
        \/ \E image \in CallImages : CallStart(c, image)
        \/ CallOnError(c)
        \/ CallOnLoadNoContext(c)
        \/ CallOnLoadThrows(c)
        \/ CallOnLoad(c)

SpecCalls == InitCalls /\ [][NextCalls]_vars

----------------------------------------------------------------------------
(* What the claims speak of, stated from the buffer and not from the scan *)

PixelsOf(image) == (0..(image.width - 1)) \X (0..(image.height - 1))

AlphaOf(image, p) == image.data[(p[2] * image.width + p[1]) * 4 + 4]

Occupied(image) == {p \in PixelsOf(image) : AlphaOf(image, p) > 0}

\* the alpha mass of the pixels of S among those numbered lo..hi in row-major order
RECURSIVE MassIn(_, _, _, _)
MassIn(image, S, lo, hi) ==
    IF lo > hi THEN 0
    ELSE IF lo = hi
         THEN LET p == <<lo % image.width, lo \div image.width>>
              IN  IF p \in S THEN AlphaOf(image, p) ELSE 0
         ELSE LET mid == (lo + hi) \div 2
              IN  MassIn(image, S, lo, mid) + MassIn(image, S, mid + 1, hi)

Mass(image, S) == MassIn(image, S, 0, image.width * image.height - 1)

Resolved == settled = "resolved"

\* the extraction returned a record for a buffer with at least one alpha > 0 pixel
ResolvedOccupied == Resolved /\ Occupied(img) # {}

----------------------------------------------------------------------------
(* Claims *)

\* C1: for a buffer with an alpha > 0 pixel, weight_left + weight_right = 100 and
\* weight_top + weight_bottom = 100 (weightL + weightR = totalAlpha = weightT +
\* weightB), the halves being those of the full buffer: weightL is the alpha mass
\* of the pixels with x < W/2 and weightT that of the pixels with y < H/2.
C1_WeightsSumTo100 ==
    ResolvedOccupied =>
        /\ Add(record.weight_left, record.weight_right) = Num(100)
        /\ Add(record.weight_top, record.weight_bottom) = Num(100)
        /\ acc.weightL + acc.weightR = acc.totalAlpha
        /\ acc.weightT + acc.weightB = acc.totalAlpha
        /\ acc.totalAlpha = Mass(img, Occupied(img))
        /\ acc.weightL = Mass(img, {p \in Occupied(img) : 2 * p[1] < img.width})
        /\ acc.weightT = Mass(img, {p \in Occupied(img) : 2 * p[2] < img.height})

\* a record whose bounding box lies wholly in the right half of an odd-width
\* buffer, with mass on both sides of the buffer's horizontal midline
C1_Witness ==
    /\ ResolvedOccupied
    /\ img.width % 2 = 1
    /\ 2 * acc.minX > img.width - 1
    /\ acc.weightL = 0
    /\ record.weight_right = Num(100)
    /\ acc.weightT > 0 /\ acc.weightB > 0

\* C2: the bounding box is minimal: every alpha > 0 pixel lies within it, edges
\* included, and each of its four edges holds an alpha > 0 pixel, so that
\* shrinking any side by 1 excludes one.
C2_BoundingBoxMinimal ==
    ResolvedOccupied =>
        LET bb == record.boundingBox
        IN  /\ \A p \in Occupied(img) :
                 /\ bb.x <= p[1] /\ p[1] <= bb.x + bb.width
                 /\ bb.y <= p[2] /\ p[2] <= bb.y + bb.height
            /\ \E p \in Occupied(img) : p[1] = bb.x
            /\ \E p \in Occupied(img) : p[1] = bb.x + bb.width
            /\ \E p \in Occupied(img) : p[2] = bb.y
            /\ \E p \in Occupied(img) : p[2] = bb.y + bb.height

\* a box with transparent columns on both sides of it
C2_Witness ==
    /\ ResolvedOccupied
    /\ record.boundingBox.x > 0
    /\ record.boundingBox.width > 0
    /\ record.boundingBox.x + record.boundingBox.width < img.width - 1

\* C3: the centre of mass lies within [minX, maxX] x [minY, maxY].
C3_CentroidInBox ==
    ResolvedOccupied =>
        /\ Le(Num(acc.minX), record.centerOfMass.x)
        /\ Le(record.centerOfMass.x, Num(acc.maxX))
        /\ Le(Num(acc.minY), record.centerOfMass.y)
        /\ Le(record.centerOfMass.y, Num(acc.maxY))

\* a centroid strictly inside a box that is wider than tall and off the origin
C3_Witness ==
    /\ ResolvedOccupied
    /\ acc.minX > 0
    /\ acc.maxX - acc.minX > acc.maxY - acc.minY
    /\ Lt(Num(acc.minX), record.centerOfMass.x)
    /\ Lt(record.centerOfMass.x, Num(acc.maxX))
    /\ record.centerOfMass.x.d # 1

\* the symmetry class of the imbalance |w1 - w2| / total, with the boundaries
\* 0.05 = 1/20 and 0.15 = 3/20 compared on integers
ClassOf(w1, w2, total) ==
    IF 20 * Abs(w1 - w2) < total THEN "high"
    ELSE IF 20 * Abs(w1 - w2) < 3 * total THEN "medium"
    ELSE "low"

\* C4: symmetry_vertical depends on diffV = |weightL - weightR| / totalAlpha
\* alone and symmetry_horizontal on diffH: diff < 0.05 is 'high', 0.05 <= diff <
\* 0.15 is 'medium', diff >= 0.15 is 'low'.
C4_SymmetryBoundaries ==
    ResolvedOccupied =>
        /\ record.symmetry_vertical = ClassOf(acc.weightL, acc.weightR, acc.totalAlpha)
        /\ record.symmetry_horizontal = ClassOf(acc.weightT, acc.weightB, acc.totalAlpha)

\* diffV exactly 0.05, classified 'medium', and diffH exactly 0 classified 'high'
C4_Witness ==
    /\ ResolvedOccupied
    /\ 20 * Abs(acc.weightL - acc.weightR) = acc.totalAlpha
    /\ record.symmetry_vertical = "medium"
    /\ acc.weightT = acc.weightB
    /\ record.symmetry_horizontal = "high"

\* diffH exactly 0.15, classified 'low'
C4_WitnessUpper ==
    /\ ResolvedOccupied
    /\ 20 * Abs(acc.weightT - acc.weightB) = 3 * acc.totalAlpha
    /\ record.symmetry_horizontal = "low"

\* the handler of the image's load or error event has run
HandlerRan == handler # "none"

\* C5: extraction on a well-formed buffer whose pixels all have alpha = 0 fails
\* (EmptyArtifact) and returns no LogoMetrics record.
C5_EmptyArtifactFails ==
    (HandlerRan /\ img.width > 0 /\ img.height > 0 /\ Occupied(img) = {}) =>
        settled = "rejected" /\ record = NoRecord

\* the alpha > 0 pixels lie in one column or in one row: bbWidth * bbHeight = 0
Degenerate(image) ==
    \/ Cardinality({p[1] : p \in Occupied(image)}) = 1
    \/ Cardinality({p[2] : p \in Occupied(image)}) = 1

\* C6: extraction fails (DegenerateBoundingBox) whenever bbWidth * bbHeight = 0,
\* and returns no record with an infinite or NaN density.
C6_DegenerateBoxFails ==
    (HandlerRan /\ Occupied(img) # {} /\ Degenerate(img)) =>
        settled = "rejected" /\ record = NoRecord

\* C7: extraction fails (InvalidBuffer) and returns no record when the width or
\* the height is <= 0 or the data length differs from width * height * 4.
C7_InvalidBufferFails ==
    (HandlerRan /\ (\/ img.width <= 0
                    \/ img.height <= 0
                    \/ Len(img.data) # img.width * img.height * 4)) =>
        settled = "rejected" /\ record = NoRecord

InRange(v, lo, hi) == IsFinite(v) /\ Le(Num(lo), v) /\ Le(v, Num(hi))

\* C8: a returned record holds no NaN, no infinity and no out-of-range
\* percentage: the four weights and density lie in [0, 100], the two centre
\* offsets in [-50, 50].
C8_RecordInRange ==
    Resolved =>
        /\ IsFinite(record.aspect_ratio)
        /\ IsFinite(record.complexity_index)
        /\ IsFinite(record.centerOfMass.x)
        /\ IsFinite(record.centerOfMass.y)
        /\ InRange(record.weight_left, 0, 100)
        /\ InRange(record.weight_right, 0, 100)
        /\ InRange(record.weight_top, 0, 100)
        /\ InRange(record.weight_bottom, 0, 100)
        /\ InRange(record.density, 0, 100)
        /\ InRange(record.center_offset_x, -50, 50)
        /\ InRange(record.center_offset_y, -50, 50)

\* C9: the fully opaque 10 x 10 buffer yields boundingBox {0, 0, 10, 10},
\* centerOfMass (4.5, 4.5), density 100, weight_left = weight_right = 50 and
\* both symmetries 'high'.
C9_OpaqueSquareCase ==
    (img = OpaqueSquare /\ Resolved) =>
        /\ record.boundingBox = [x |-> 0, y |-> 0, width |-> 10, height |-> 10]
        /\ record.centerOfMass = [x |-> Frac(9, 2), y |-> Frac(9, 2)]
        /\ record.density = Num(100)
        /\ record.weight_left = Num(50)
        /\ record.weight_right = Num(50)
        /\ record.symmetry_vertical = "high"
        /\ record.symmetry_horizontal = "high"

\* C10: the 10 x 10 buffer opaque in column x = 0 only yields a record with
\* weight_left = 100, weight_right = 0, symmetry_vertical 'low' and
\* center_offset_x = -50.
C10_LeftColumnCase ==
    (img = LeftColumn /\ handler = "returned" /\ settled # "rejected") =>
        /\ Resolved
        /\ record.weight_left = Num(100)
        /\ record.weight_right = Num(0)
        /\ record.symmetry_vertical = "low"
        /\ record.center_offset_x = Num(-50)

\* the record returned for the left-column buffer
C10_Witness ==
    /\ img = LeftColumn
    /\ Resolved
    /\ record.boundingBox = [x |-> 0, y |-> 0, width |-> 0, height |-> 9]
    /\ Lt(record.center_offset_x, Num(0))

MetricsFields ==
    {"width", "height", "aspect_ratio", "symmetry_vertical", "symmetry_horizontal",
     "center_offset_x", "center_offset_y", "weight_left", "weight_right",
     "weight_top", "weight_bottom", "density", "complexity_index", "boundingBox",
     "centerOfMass"}

\* C16: a call settles exactly once and atomically: once the image's event has
\* been handled the promise is resolved with a full record or rejected, never
\* both and never with a partial record.
C16_SettlesOnceAtomically ==
    /\ HandlerRan => settled \in {"resolved", "rejected"}
    /\ settled = "resolved" => DOMAIN record = MetricsFields /\ reason = ""
    /\ settled # "resolved" => record = NoRecord
    /\ settled # "rejected" => reason = ""

\* the accumulation pass visiting the pixels in the order of the sequence order
RECURSIVE ScanInOrder(_, _, _, _, _)
ScanInOrder(a, W, H, data, order) ==
    IF order = <<>> THEN a
    ELSE LET next == Pixel(a, W, H, data, Head(order)[1], Head(order)[2])
         IN  IF next = a THEN ScanInOrder(a, W, H, data, Tail(order))
             ELSE ScanInOrder(next, W, H, data, Tail(order))

\* the pixels in the order of the two nested loops
RowMajor(image) ==
    [i \in 1..(image.width * image.height) |->
        <<(i - 1) % image.width, (i - 1) \div image.width>>]

\* every order in which the pixels of the image can be visited
Orders(image) ==
    {[i \in 1..(image.width * image.height) |-> f[RowMajor(image)[i]]] :
        f \in Permutations(PixelsOf(image))}

\* the accumulation pass over the rows of the set rows only, in increasing y
RECURSIVE ScanRowsOf(_, _, _, _, _, _)
ScanRowsOf(a, W, H, data, rows, y) ==
    IF y >= H THEN a
    ELSE IF y \in rows
         THEN ScanRowsOf(ScanRow(a, W, H, data, 0, y), W, H, data, rows, y + 1)
         ELSE ScanRowsOf(a, W, H, data, rows, y + 1)

Min2(i, j) == IF i < j THEN i ELSE j

Max2(i, j) == IF i > j THEN i ELSE j

\* two partial accumulators combined: min, max and sums
Combine(a, b) ==
    [minX |-> Min2(a.minX, b.minX), minY |-> Min2(a.minY, b.minY),
     maxX |-> Max2(a.maxX, b.maxX), maxY |-> Max2(a.maxY, b.maxY),
     totalAlpha |-> a.totalAlpha + b.totalAlpha,
     sumX |-> a.sumX + b.sumX, sumY |-> a.sumY + b.sumY,
     filledPixels |-> a.filledPixels + b.filledPixels,
     weightL |-> a.weightL + b.weightL, weightR |-> a.weightR + b.weightR,
     weightT |-> a.weightT + b.weightT, weightB |-> a.weightB + b.weightB]

\* C17: the accumulators do not depend on the order of the visit: every
\* permutation of the pixels, and every split of the rows into two groups (the
\* one that holds row 0 and the other) that are accumulated separately and
\* combined, gives the accumulators of the row-major scan.
C17_OrderImmaterial ==
    Resolved =>
        LET W == img.width
            H == img.height
            start == InitAcc(W, H)
        IN  /\ W * H <= MaxOrderPixels =>
                  \A o \in Orders(img) : ScanInOrder(start, W, H, img.data, o) = acc
            /\ \A rows \in {r \in SUBSET (0..(H - 1)) : 0 \in r} :
                  Combine(ScanRowsOf(start, W, H, img.data, rows, 0),
                          ScanRowsOf(start, W, H, img.data, (0..(H - 1)) \ rows, 0)) = acc

\* a 2 x 2 buffer with occupied pixels of different alpha in both rows and columns
C17_Witness ==
    /\ ResolvedOccupied
    /\ img.width = 2 /\ img.height = 2
    /\ acc.filledPixels >= 3
    /\ acc.weightL # acc.weightR
    /\ acc.weightT # acc.weightB

\* C18: the alpha of the pixel (x, y) goes to weightLeft iff x < W/2 and else to
\* weightRight, to weightTop iff y < H/2 and else to weightBottom, W/2 and H/2
\* being exact halves: a pixel on the midline counts right / bottom.
C18_MidlineTieBreak ==
    Resolved =>
        /\ acc.weightL = Mass(img, {p \in PixelsOf(img) : 2 * p[1] < img.width})
        /\ acc.weightR = Mass(img, {p \in PixelsOf(img) : 2 * p[1] >= img.width})
        /\ acc.weightT = Mass(img, {p \in PixelsOf(img) : 2 * p[2] < img.height})
        /\ acc.weightB = Mass(img, {p \in PixelsOf(img) : 2 * p[2] >= img.height})

\* all the mass sits on the midline column x = W/2 and the midline row y = H/2
C18_Witness ==
    /\ ResolvedOccupied
    /\ img.width % 2 = 0 /\ img.height % 2 = 0
    /\ \A p \in Occupied(img) : 2 * p[1] = img.width /\ 2 * p[2] = img.height
    /\ acc.weightL = 0 /\ acc.weightR = acc.totalAlpha
    /\ acc.weightT = 0 /\ acc.weightB = acc.totalAlpha

\* the R, G, B byte number k of a repainted buffer
Paint(c, k) == IF c = "mixed" THEN (37 * k) % 256 ELSE IF c = "white" THEN 255 ELSE 0

\* the image with the same alpha channel and other R, G, B bytes
Repaint(image, c) ==
    [image EXCEPT !.data = [k \in DOMAIN image.data |->
                               IF k % 4 = 0 THEN image.data[k] ELSE Paint(c, k)]]

\* the record getLogoMetrics resolves with for the image
RecordOf(image) ==
    Metrics(image, Scan(InitAcc(image.width, image.height),
                        image.width, image.height, image.data, 0))

\* C19: the record depends on the dimensions and the alpha channel only: the
\* same buffer with other R, G, B bytes gives the same record, and a pixel with
\* alpha = 0 changes no accumulator.
C19_AlphaOnly ==
    Resolved =>
        /\ \A c \in {"black", "white", "mixed"} : RecordOf(Repaint(img, c)) = record
        /\ acc.filledPixels = Cardinality(Occupied(img))
        /\ \A p \in PixelsOf(img) \ Occupied(img) :
              Pixel(acc, img.width, img.height, img.data, p[1], p[2]) = acc

\* a buffer with coloured transparent pixels and occupied ones
C19_Witness ==
    /\ ResolvedOccupied
    /\ img.data[1] = 255
    /\ Cardinality(Occupied(img)) >= 2
    /\ Cardinality(PixelsOf(img) \ Occupied(img)) >= 2

\* C20: boundingBox = {minX, minY, maxX - minX, maxY - minY} and density =
\* filledPixels / (boundingBox.width * boundingBox.height) * 100, which is the
\* share, in percent, of the bounding-box area that alpha > 0 pixels occupy.
\* Stated for the boxes of non-zero area.
C20_BoxAndDensity ==
    (Resolved /\ record.boundingBox.width * record.boundingBox.height > 0) =>
        LET bb == record.boundingBox
        IN  /\ bb = [x |-> acc.minX, y |-> acc.minY,
                     width |-> acc.maxX - acc.minX, height |-> acc.maxY - acc.minY]
            /\ record.density = Frac(100 * Cardinality(Occupied(img)), bb.width * bb.height)
            /\ InRange(record.density, 0, 100)

----------------------------------------------------------------------------
(* Calls in flight together                                                  *)

\* the calls whose promise resolved
ResolvedCalls == {c \in 1..MaxCalls : calls[c].settled = "resolved"}

RECURSIVE Moment(_, _, _)
Moment(image, axis, from) ==
    LET size == IF axis = 1 THEN image.width ELSE image.height
    IN  IF from >= size THEN 0
        ELSE from * Mass(image, {p \in PixelsOf(image) : p[axis] = from})
             + Moment(image, axis, from + 1)

\* the least and the greatest coordinate of the occupied pixels on an axis
Least(image, axis) ==
    CHOOSE k \in {p[axis] : p \in Occupied(image)} :
        \A p \in Occupied(image) : k <= p[axis]

Greatest(image, axis) ==
    CHOOSE k \in {p[axis] : p \in Occupied(image)} :
        \A p \in Occupied(image) : k >= p[axis]

\* the accumulators of a buffer scanned on its own, stated from its pixels
AloneAcc(image) ==
    LET occ == Occupied(image)
    IN  [minX |-> IF occ = {} THEN image.width ELSE Least(image, 1),
         minY |-> IF occ = {} THEN image.height ELSE Least(image, 2),
         maxX |-> IF occ = {} THEN 0 ELSE Greatest(image, 1),
         maxY |-> IF occ = {} THEN 0 ELSE Greatest(image, 2),
         totalAlpha |-> Mass(image, occ),
         sumX |-> Moment(image, 1, 0),
         sumY |-> Moment(image, 2, 0),
         filledPixels |-> Cardinality(occ),
         weightL |-> Mass(image, {p \in occ : 2 * p[1] < image.width}),
         weightR |-> Mass(image, {p \in occ : 2 * p[1] >= image.width}),
         weightT |-> Mass(image, {p \in occ : 2 * p[2] < image.height}),
         weightB |-> Mass(image, {p \in occ : 2 * p[2] >= image.height})]

\* C14: calls in flight together do not interfere: however their handlers
\* interleave, each call resolves with the record of its own buffer scanned alone
C14_CallsIndependent ==
    /\ \A c \in ResolvedCalls :
           calls[c].record = Metrics(calls[c].img, AloneAcc(calls[c].img))
    /\ \A c \in 1..MaxCalls :
           calls[c].settled # "resolved" => calls[c].record = NoRecord

\* three calls on three different buffers resolved, the scan of the first after
\* the scan of the second
C14_Witness ==
    \E c, d, e \in ResolvedCalls :
        /\ calls[c].img # calls[d].img
        /\ calls[c].img # calls[e].img
        /\ calls[d].img # calls[e].img
        /\ c < d
        /\ calls[c].seq > calls[d].seq

\* a single call resolves with the record of its buffer as AloneAcc states it
AloneIsScan == Resolved => acc = AloneAcc(img)


----------------------------------------------------------------------------
(* The App component: what the user does and what the pending promises do.   *)
(* Every handler and every continuation after an await runs to completion   *)
(* before the next one starts.  A startAnalysis invocation keeps the         *)
(* imageSrc and the archive of the render it was made in.                    *)

\* the most entries the archive keeps
ArchiveCap == 25

\* the data URLs a FileReader can produce: of a logo, of a fully transparent
\* image, and of bytes that are no image
Sources ==
    {[image |-> MkImage(2, 2, [i \in 0..3 |-> IF i = 1 THEN 0 ELSE 255], 0)],
     [image |-> MkImage(1, 1, [i \in 0..0 |-> 0], 0)],
     [corrupt |-> TRUE]}

\* whether the browser decodes the source into an image
Decodes(src) == "image" \in DOMAIN src

\* the MIME types of the files the user can drop
FileTypes == {"image/png", "image/svg+xml", "text/plain", ""}

\* file.type.startsWith('image/')
IsImageType(type) == type \in {"image/png", "image/svg+xml"}

FORMAT_ERROR == [message |-> "FORMAT_ERROR: Analysis requires high-fidelity image artifacts."]

SYSTEM_FAULT == [message |-> "SYSTEM_FAULT: Diagnostic connection timeout."]

\* what analyzeLogoStructure returns when the response text is no JSON
Fallback == [structural_summary |-> "Parsing failure: Response stream corrupted.", score |-> 0]

\* the text of an answer that follows the response schema, and what it parses to
AnswerText == "{\"structural_summary\":\"answer\",\"score\":87}"

Answer == [structural_summary |-> "answer", score |-> 87]

\* what the call of the service can come to: no call for want of an API key, a
\* rejected call, or a response with a text: an answer, no JSON, or nothing
Replies ==
    {[kind |-> "no key"], [kind |-> "rejects"]}
        \cup {[kind |-> "text", text |-> t] : t \in {AnswerText, "<html>", ""}}

\* JSON.parse: the value, or a SyntaxError
ParseJson(text) ==
    IF text = AnswerText THEN [threw |-> FALSE, value |-> Answer]
    ELSE IF text = "{}" THEN [threw |-> FALSE, value |-> <<>>]
    ELSE [threw |-> TRUE]

\* { ...data, groundingUrls }
WithGroundingUrls(data) ==
    [f \in DOMAIN data \cup {"groundingUrls"} |->
        IF f = "groundingUrls" THEN <<>> ELSE data[f]]

\* analyzeLogoStructure: what it throws or returns for a reply of the service
analyzeLogoStructure(reply) ==
    IF reply.kind \in {"no key", "rejects"} THEN [threw |-> TRUE]
    ELSE LET text == IF reply.text = "" THEN "{}" ELSE reply.text
             parsed == ParseJson(text)
         IN  IF parsed.threw THEN [threw |-> FALSE, value |-> Fallback]
             ELSE [threw |-> FALSE, value |-> WithGroundingUrls(parsed.value)]

\* JSON.stringify of a number or null: NaN and the infinities become null
JsonNumber(v) == IF v # null /\ IsFinite(v) THEN v ELSE null

\* a LogoMetrics record after JSON.stringify and JSON.parse
JsonMetrics(m) ==
    [width |-> m.width,
     height |-> m.height,
     aspect_ratio |-> JsonNumber(m.aspect_ratio),
     symmetry_vertical |-> m.symmetry_vertical,
     symmetry_horizontal |-> m.symmetry_horizontal,
     center_offset_x |-> JsonNumber(m.center_offset_x),
     center_offset_y |-> JsonNumber(m.center_offset_y),
     weight_left |-> JsonNumber(m.weight_left),
     weight_right |-> JsonNumber(m.weight_right),
     weight_top |-> JsonNumber(m.weight_top),
     weight_bottom |-> JsonNumber(m.weight_bottom),
     density |-> JsonNumber(m.density),
     complexity_index |-> JsonNumber(m.complexity_index),
     boundingBox |-> m.boundingBox,
     centerOfMass |-> [x |-> JsonNumber(m.centerOfMass.x),
                       y |-> JsonNumber(m.centerOfMass.y)]]

\* the archive after JSON.stringify and JSON.parse
Json(list) ==
    [i \in 1..Len(list) |->
        [list[i] EXCEPT !.metrics = IF @ = null THEN null ELSE JsonMetrics(@)]]

\* list.slice(0, n)
Slice(list, n) == SubSeq(list, 1, IF Len(list) < n THEN Len(list) ELSE n)

\* the variables of the specifications that follow getLogoMetrics calls alone
extraction == <<oneCall, acc, calls>>

InitApp ==
    /\ AppFresh
    /\ calls = [c \in 1..MaxCalls |-> NoCall]
    /\ acc = NoAcc
    /\ OneCallIdle

\* processFile that also unmounts the image when it refuses a file
ProcessFileUnmounts(type) ==
    /\ UNCHANGED <<extraction, analysisStep>>
    /\ IF ~IsImageType(type)
       THEN /\ error' = FORMAT_ERROR
            /\ imageSrc' = null
            /\ UNCHANGED <<state, metrics, analysis, archive, storage, reading, runs>>
       ELSE /\ reading < MaxReads
            /\ reading' = reading + 1
            /\ UNCHANGED <<state, imageSrc, metrics, analysis, error,
                           archive, storage, runs>>

\* processFile: a file is dropped or chosen
ProcessFile(type) ==
    /\ UNCHANGED <<extraction, analysisStep>>
    /\ IF ~IsImageType(type)
       THEN /\ error' = FORMAT_ERROR
            /\ UNCHANGED <<state, imageSrc, metrics, analysis, archive,
                           storage, reading, runs>>
       ELSE /\ reading < MaxReads
            /\ reading' = reading + 1
            /\ UNCHANGED <<state, imageSrc, metrics, analysis, error,
                           archive, storage, runs>>

\* reader.onload: a read completes with the file's content as a data URL
ReaderOnLoad(src) ==
    /\ UNCHANGED <<extraction, analysisStep>>
    /\ reading > 0
    /\ reading' = reading - 1
    /\ imageSrc' = src
    /\ state' = "upload"
    /\ error' = null
    /\ UNCHANGED <<metrics, analysis, archive, storage, runs>>

\* the run number the next startAnalysis takes
NextRun == CHOOSE r \in 1..MaxRuns :
               /\ runs[r].pc = "unstarted"
               /\ \A q \in 1..(r - 1) : runs[q].pc # "unstarted"

\* startAnalysis up to its first await: Execute Scan is clicked.  state becomes
\* 'analyzing', so the effect on state sets analysisStep to 0 and starts the interval.
StartAnalysis ==
    /\ UNCHANGED extraction
    /\ analysisStep' = 0
    /\ state = "upload"
    /\ imageSrc # null
    /\ \E r \in 1..MaxRuns : runs[r].pc = "unstarted"
    /\ state' = "analyzing"
    /\ error' = null
    /\ runs' = [runs EXCEPT ![NextRun] =
                   [NoRun EXCEPT !.pc = "extracting", !.imageSrc = imageSrc,
                                 !.archive = archive, !.before = <<metrics, analysis>>]]
    /\ UNCHANGED <<imageSrc, metrics, analysis, archive, storage, reading>>

\* the catch block of startAnalysis
Catch ==
    /\ error' = SYSTEM_FAULT
    /\ state' = "upload"

\* getLogoMetrics rejects: the image does not decode, or no canvas context
ExtractionRejects(r) ==
    /\ UNCHANGED <<extraction, analysisStep>>
    /\ runs[r].pc = "extracting"
    /\ runs' = [runs EXCEPT ![r] = [NoRun EXCEPT !.pc = "failed"]]
    /\ Catch
    /\ UNCHANGED <<imageSrc, metrics, analysis, archive, storage, reading>>

\* getLogoMetrics resolves: startAnalysis goes on to its second await
ExtractionResolves(r) ==
    /\ UNCHANGED <<extraction, analysisStep>>
    /\ runs[r].pc = "extracting"
    /\ Decodes(runs[r].imageSrc)
    /\ runs[r].imageSrc.image.width > 0 /\ runs[r].imageSrc.image.height > 0
    /\ LET extractedMetrics == RecordOf(runs[r].imageSrc.image)
       IN  /\ metrics' = extractedMetrics
           /\ runs' = [runs EXCEPT ![r].pc = "interpreting",
                                   ![r].extractedMetrics = extractedMetrics]
    /\ UNCHANGED <<state, imageSrc, analysis, error, archive, storage,
                   reading>>

\* analyzeLogoStructure rejects
InterpretationRejects(r, reply) ==
    /\ UNCHANGED <<extraction, analysisStep>>
    /\ runs[r].pc = "interpreting"
    /\ analyzeLogoStructure(reply).threw
    /\ runs' = [runs EXCEPT ![r] = [NoRun EXCEPT !.pc = "failed"]]
    /\ Catch
    /\ UNCHANGED <<imageSrc, metrics, analysis, archive, storage, reading>>

\* the entry startAnalysis builds; the run number stands for its id and timestamp
\* (a score that is undefined is a field that is not there)
NewEntry(r, aiResponse) ==
    IF "score" \in DOMAIN aiResponse
    THEN [id |-> r,
          imageSrc |-> runs[r].imageSrc,
          score |-> aiResponse.score,
          metrics |-> runs[r].extractedMetrics,
          analysis |-> aiResponse]
    ELSE [id |-> r,
          imageSrc |-> runs[r].imageSrc,
          metrics |-> runs[r].extractedMetrics,
          analysis |-> aiResponse]

\* analyzeLogoStructure resolves: the rest of startAnalysis, saveToArchive included
InterpretationResolves(r, reply) ==
    /\ UNCHANGED <<extraction, analysisStep>>
    /\ runs[r].pc = "interpreting"
    /\ ~analyzeLogoStructure(reply).threw
    /\ LET aiResponse == analyzeLogoStructure(reply).value
           updated == Slice(<<NewEntry(r, aiResponse)>> \o runs[r].archive, ArchiveCap)
       IN  /\ analysis' = aiResponse
           /\ archive' = updated
           /\ storage' = [json |-> Json(updated)]
    /\ state' = "results"
    /\ runs' = [runs EXCEPT ![r] = [NoRun EXCEPT !.pc = "done"]]
    /\ UNCHANGED <<imageSrc, metrics, error, reading>>

\* loadFromArchive: the archive panel is opened and one of its entries clicked
LoadFromArchive(i) ==
    /\ UNCHANGED <<extraction, analysisStep>>
    /\ i \in 1..Len(archive)
    /\ imageSrc' = archive[i].imageSrc
    /\ metrics' = archive[i].metrics
    /\ analysis' = archive[i].analysis
    /\ state' = "results"
    /\ UNCHANGED <<error, archive, storage, reading, runs>>

\* reset: the header logo, Purge or New Scan is clicked
Reset ==
    /\ UNCHANGED <<extraction, analysisStep>>
    /\ imageSrc' = null
    /\ metrics' = null
    /\ analysis' = null
    /\ error' = null
    /\ state' = "landing"
    /\ UNCHANGED <<archive, storage, reading, runs>>

\* DISMISS on the error banner
DismissError ==
    /\ UNCHANGED <<extraction, analysisStep>>
    /\ error # null
    /\ error' = null
    /\ UNCHANGED <<state, imageSrc, metrics, analysis, archive, storage,
                   reading, runs>>

\* the page is loaded again: state starts afresh, what was in flight is gone,
\* and the mount effect reads the archive back from localStorage
Reload ==
    /\ UNCHANGED extraction
    /\ analysisStep' = 0
    /\ state' = "landing"
    /\ imageSrc' = null
    /\ metrics' = null
    /\ analysis' = null
    /\ error' = null
    /\ archive' = IF storage = null THEN <<>> ELSE storage.json
    /\ reading' = 0
    /\ runs' = [r \in 1..MaxRuns |->
                   IF runs[r].pc \in {"extracting", "interpreting"}
                   THEN [NoRun EXCEPT !.pc = "gone"]
                   ELSE runs[r]]
    /\ UNCHANGED storage

\* the lines of the progress display
ANALYSIS_STEPS ==
    <<"Initializing AXIOM Core...",
      "Isolating Volumetric Centroid...",
      "Mapping Morphological Load...",
      "Quantifying Axial Deviation...",
      "Grounding Market Patterns...",
      "Generating Structural Protocol...">>

\* AnalysisTick with an interval that is never cleared once it has been started
AnalysisTickNotCleared ==
    /\ UNCHANGED extraction
    /\ \E r \in 1..MaxRuns : runs[r].pc # "unstarted"
    /\ analysisStep' = IF analysisStep < Len(ANALYSIS_STEPS) - 1
                       THEN analysisStep + 1
                       ELSE analysisStep
    /\ UNCHANGED <<state, imageSrc, metrics, analysis, error, archive, storage,
                   reading, runs>>

\* a tick of the interval, which exists while state is 'analyzing': the effect
\* on state clears it when state changes
AnalysisTick ==
    /\ UNCHANGED extraction
    /\ state = "analyzing"
    /\ analysisStep' = IF analysisStep < Len(ANALYSIS_STEPS) - 1
                       THEN analysisStep + 1
                       ELSE analysisStep
    /\ UNCHANGED <<state, imageSrc, metrics, analysis, error, archive, storage,
                   reading, runs>>

NextApp ==
    \/ \E type \in FileTypes : ProcessFile(type)
    \/ \E src \in Sources : ReaderOnLoad(src)
    \/ StartAnalysis
    \/ \E r \in 1..MaxRuns :
           \/ ExtractionRejects(r)
           \/ ExtractionResolves(r)
           \/ \E reply \in Replies : InterpretationRejects(r, reply)
           \/ \E reply \in Replies : InterpretationResolves(r, reply)
    \/ \E i \in 1..MaxRuns : LoadFromArchive(i)
    \/ Reset
    \/ DismissError
    \/ AnalysisTick
    \/ Reload

SpecApp == InitApp /\ [][NextApp]_vars


----------------------------------------------------------------------------
(* The App: failures and the life of a record                                *)

\* the step in which the run r fails: its catch block runs
RunFails(r) ==
    /\ runs[r].pc \in {"extracting", "interpreting"}
    /\ runs'[r].pc = "failed"

\* C12: when extraction or interpretation fails, the App shows an error and is
\* back in 'upload' with an image still mounted; the run adds no archive entry,
\* is not retried and never reaches 'results'.
C12_FailureSurfaced ==
    [][\A r \in 1..MaxRuns :
          /\ RunFails(r) =>
                /\ error' # null
                /\ state' = "upload"
                /\ imageSrc' # null
                /\ archive' = archive
                /\ storage' = storage
          /\ runs[r].pc = "failed" => runs'[r].pc = "failed"]_vars

\* the LogoMetrics records that extraction can produce from the dropped files
Extractable == {RecordOf(src.image) : src \in {q \in Sources : Decodes(q)}}

\* C13: a record is never changed after extraction: the metrics on display are
\* a record that getLogoMetrics returned, and the metrics of every archive
\* entry are the record that getLogoMetrics returns for the entry's image.
C13_RecordNeverMutated ==
    /\ metrics # null => metrics \in Extractable
    /\ \A r \in 1..MaxRuns :
           runs[r].pc = "interpreting" =>
               runs[r].extractedMetrics = RecordOf(runs[r].imageSrc.image)
    /\ \A i \in 1..Len(archive) :
           archive[i].metrics = RecordOf(archive[i].imageSrc.image)


----------------------------------------------------------------------------
(* The centroid and mirror symmetry                                          *)

\* C21: for a buffer with an alpha > 0 pixel, centerOfMass is (sumX / totalAlpha,
\* sumY / totalAlpha), center_offset is (centre - size / 2) / size * 100 on each
\* axis, and an offset is negative exactly when the alpha-weighted centroid lies
\* left of W / 2 (above H / 2).
C21_CentroidAndOffsets ==
    ResolvedOccupied =>
        LET W == img.width
            H == img.height
            total == Mass(img, Occupied(img))
            sumX == Moment(img, 1, 0)
            sumY == Moment(img, 2, 0)
        IN  /\ record.centerOfMass = [x |-> Frac(sumX, total), y |-> Frac(sumY, total)]
            /\ record.center_offset_x = Frac(100 * (2 * sumX - W * total), 2 * W * total)
            /\ record.center_offset_y = Frac(100 * (2 * sumY - H * total), 2 * H * total)
            /\ Lt(record.center_offset_x, Num(0)) <=> 2 * sumX < W * total
            /\ Lt(record.center_offset_y, Num(0)) <=> 2 * sumY < H * total

\* a centroid between pixel columns, left of W / 2 and below H / 2
C21_Witness ==
    /\ ResolvedOccupied
    /\ record.centerOfMass.x.d # 1
    /\ Lt(record.center_offset_x, Num(0))
    /\ Lt(Num(0), record.center_offset_y)

\* alpha(x, y) = alpha(W - 1 - x, y) for every pixel
MirrorVertical(image) ==
    \A p \in PixelsOf(image) :
        AlphaOf(image, p) = AlphaOf(image, <<image.width - 1 - p[1], p[2]>>)

\* alpha(x, y) = alpha(x, H - 1 - y) for every pixel
MirrorHorizontal(image) ==
    \A p \in PixelsOf(image) :
        AlphaOf(image, p) = AlphaOf(image, <<p[1], image.height - 1 - p[2]>>)

\* C24: a buffer of any width whose alpha is mirror-symmetric about the vertical
\* centre line and has an alpha > 0 pixel gives weight_left = weight_right = 50
\* and symmetry_vertical = 'high'; likewise for the horizontal centre line.
C24_MirrorSymmetric ==
    ResolvedOccupied =>
        /\ MirrorVertical(img) =>
              /\ record.weight_left = Num(50)
              /\ record.weight_right = Num(50)
              /\ record.symmetry_vertical = "high"
        /\ MirrorHorizontal(img) =>
              /\ record.weight_top = Num(50)
              /\ record.weight_bottom = Num(50)
              /\ record.symmetry_horizontal = "high"


----------------------------------------------------------------------------
(* The App: persistence and the results view                                 *)

\* the ids of the entries of a list
IdsOf(list) == {list[i].id : i \in 1..Len(list)}

\* C22: every run that completed successfully is persisted: while fewer than 25
\* entries have been added after it, its entry is in the archive and in
\* localStorage, overlapping runs included; no later save drops it.
C22_RunsPersisted ==
    \A r \in 1..MaxRuns :
        (runs[r].pc = "done" /\ MaxRuns < ArchiveCap) =>
            /\ r \in IdsOf(archive)
            /\ storage # null
            /\ r \in IdsOf(storage.json)

\* C25: in every reachable state, state = 'results' implies that imageSrc,
\* metrics and analysis are all non-null.
C25_ResultsComplete ==
    state = "results" => imageSrc # null /\ metrics # null /\ analysis # null

\* what the results view shows
Display == <<imageSrc, metrics, analysis>>

\* C26: in 'results' the imageSrc, metrics and analysis on display belong to one
\* analysis: whenever a step leaves the App in 'results' with something new on
\* display and none of the three null, the three are those of one archive entry,
\* the entry of the run that just completed or the entry that was loaded.
C26_ResultsOfOneAnalysis ==
    [][(/\ state' = "results"
        /\ state # "results" \/ Display' # Display
        /\ imageSrc' # null /\ metrics' # null /\ analysis' # null) =>
          \E i \in 1..Len(archive') :
              /\ imageSrc' = archive'[i].imageSrc
              /\ metrics' = archive'[i].metrics
              /\ analysis' = archive'[i].analysis]_vars


\* C23: a failed run leaves no partial result: when getLogoMetrics succeeded and
\* analyzeLogoStructure then fails, metrics and analysis are what they were
\* when the run was started.
C23_NoPartialResult ==
    [][\A r \in 1..MaxRuns :
          (runs[r].pc = "interpreting" /\ runs'[r].pc = "failed") =>
              <<metrics', analysis'>> = runs[r].before]_vars

\* what JSON.parse makes of the response texts that are valid JSON
ParsedAnswers ==
    {ParseJson(reply.text).value :
        reply \in {q \in Replies : q.kind = "text" /\ ~ParseJson(q.text).threw}}

\* C28: analyzeLogoStructure never fails over an unparseable response: it throws
\* only for a missing API key or a rejected service call, and what it returns
\* is the parsed response or, for a text that is no valid JSON, the fixed
\* fallback with score 0, with which startAnalysis reaches 'results' and
\* archives the fallback entry.
C28_UnparseableGivesFallback ==
    [][\A r \in 1..MaxRuns :
          /\ \A reply \in Replies :
                 analyzeLogoStructure(reply).threw <=> reply.kind \in {"no key", "rejects"}
          /\ (runs[r].pc = "interpreting" /\ runs'[r].pc = "done") =>
                 /\ state' = "results"
                 /\ archive'[1].analysis = analysis'
                 /\ storage'.json[1].analysis = analysis'
                 /\ \/ analysis' = Fallback /\ archive'[1].score = 0
                    \/ \E data \in ParsedAnswers : analysis' = WithGroundingUrls(data)]_vars

\* C29: processFile on a file whose type does not start with 'image/' sets the
\* error message and nothing else, and starts no read; on an image file it only
\* starts a read, and state becomes 'upload' with imageSrc set and error
\* cleared in the step in which a read completes, not before (a read ends
\* otherwise only with the page).
C29_ProcessFileEffects ==
    [][/\ (error' = FORMAT_ERROR /\ error # FORMAT_ERROR) =>
              UNCHANGED <<state, imageSrc, metrics, analysis, archive, storage, reading, runs>>
       /\ reading' > reading =>
              UNCHANGED <<state, imageSrc, metrics, analysis, error, archive, storage, runs>>
       /\ reading' < reading =>
              \/ /\ reading' = reading - 1
                 /\ state' = "upload"
                 /\ imageSrc' \in Sources
                 /\ error' = null
                 /\ UNCHANGED <<metrics, analysis, archive, storage, runs>>
              \/ /\ reading' = 0
                 /\ state' = "landing"
                 /\ Display' = <<null, null, null>>
       /\ (state' = "upload" /\ imageSrc' # imageSrc) => reading' = reading - 1]_vars

\* a file of another type was refused while results were on display, and an
\* image file is being read: the results are still there
C29_Witness ==
    /\ error = FORMAT_ERROR
    /\ reading = 1
    /\ state = "results"
    /\ imageSrc # null /\ metrics # null /\ analysis # null


C27_SaveKeepsPrevious ==
    [][\A r \in 1..MaxRuns :
          (runs[r].pc = "interpreting" /\ runs'[r].pc = "done") =>
              /\ Len(archive') <= ArchiveCap
              /\ Len(archive') >= 1
              /\ archive'[1].id = r
              /\ archive' = Slice(<<archive'[1]>> \o archive, ArchiveCap)
              /\ storage' = [json |-> Json(archive')]]_vars


====
